---- MODULE Spec2Model ----
(***************************************************************************)
(* cpp-mediator: cancellation tokens, task results and the mediator's      *)
(* synchronous (send) and asynchronous (sendAsync) dispatch.               *)
(*   src/include/cpp_mediator/async.hpp                                    *)
(*   src/include/cpp_mediator/mediator.hpp                                 *)
(* and the single-handler mediator of src/mediator.hpp.                    *)
(***************************************************************************)
EXTENDS Integers, Sequences, FiniteSets, TLC

\* ---------------------------------------------------------------- bounds
MaxTokens     == 3   \* token objects constructed in one run of the token laws
MaxTime       == 1   \* steady_clock ticks (milliseconds) observed
MaxTimeout    == 0   \* largest timeout handed to timeoutToken(int)
MaxHandlers   == 2   \* handlers the container resolves for the request
MaxMiddleware == 2   \* middleware the container resolves for the request
MaxResults    == 3   \* entries of a taskResults object that is scanned
MaxTypes      == 3   \* handler types known to the single-handler mediator
MaxRegistered == 3   \* register_handler calls made on one single-handler mediator

VARIABLES
    is_cancelled,     \* heap of shared flags: is_cancelled[p] is *p          (async.hpp:17)
    tokens,           \* token objects: [kind, flagp, m_start, m_timeout, origin]
    now,              \* std::chrono::steady_clock::now()
    handlers,         \* number of handlers resolveAll<request_handler> returns
    middleware,       \* number of middleware resolveAll<request_middleware> returns
    singleInstance,   \* container policy: TRUE = the same middleware objects on every resolve
    next,             \* request_middleware::next of every middleware object  (mediator.hpp:29)
    pc,               \* per handler invocation (task): position in the lambda / mediator::handle
    i_loop,           \* per task: loop variable i of mediator.hpp:67
    prev_middleware,  \* per task: local prev_middleware of mediator.hpp:63
    at,               \* per task: chain link whose handle() runs next
    trace,            \* per task: handle() invocations made so far, in order
    checked,          \* per task: its chain has called cancellation.throwIfCanceled()
    published,        \* the flags as they were when the dispatch began: the writes that
                      \* happen before every read the dispatched code makes
    m_futures,        \* futures::m_futures: shared state of every std::future
    m_token,          \* futures::m_token
    ret,              \* local ret of send / of futures::get
    caller,           \* position of the calling thread
    thrown,           \* exception that left send / get, "none" if none
    waitRet,          \* value returned by futures::wait(), "none" before the call
    readyRet,         \* value returned by futures::isReady(), "none" before the call
    results,          \* a taskResults object the caller scans
    scanned,          \* the last scan of results: [op, index, result, exception]
    handlers_by_type, \* holden::mediator::mediator::handlers_by_type  (src/mediator.hpp:39)
    registered,       \* the register_handler calls made so far, in order
    response          \* what the last single-handler send(r) returned

tokenVars    == <<is_cancelled, tokens, now>>
registryVars == <<handlers, middleware, singleInstance>>
taskVars     == <<next, pc, i_loop, prev_middleware, at, trace, checked, published>>
callerVars   == <<m_futures, m_token, ret, caller, thrown, waitRet, readyRet>>
scanVars     == <<results, scanned>>
simpleVars   == <<handlers_by_type, registered, response>>
otherVars    == <<scanVars, simpleVars>>
vars         == <<tokenVars, registryVars, taskVars, callerVars, otherVars>>

\* ------------------------------------------------- cancellationToken
\* A token object.  kind is the dynamic type; flagp is the shared_ptr<bool>
\* is_cancelled (an index into the heap of flags); m_start and m_timeout are
\* timeoutToken's members (0 in a plain token, which has none).  origin is
\* the flag the default-constructed token this one was copied from
\* allocated: it names "the same original" and is written nowhere else.
Token(kind, flagp, start, timeout, origin) ==
    [kind |-> kind, flagp |-> flagp, m_start |-> start, m_timeout |-> timeout,
     origin |-> origin]

\* cancellationToken(const cancellationToken& other) and
\* cancellationToken(cancellationToken&& other): is_cancelled = other.is_cancelled
CopyFlagFresh(other) == Len(is_cancelled) + 1

CopyFlag(other) == other.flagp

\* cancellationToken::isCanceled(): return *is_cancelled
baseIsCanceled(t) == is_cancelled[t.flagp]

\* timeoutToken::isCanceled(): base || now - m_start > m_timeout ; virtual
isCanceled(t) ==
    IF t.kind = "timeout"
    THEN baseIsCanceled(t) \/ (now - t.m_start > t.m_timeout)
    ELSE baseIsCanceled(t)

\* throwIt(): what throwIfCanceled() throws, by dynamic type
throwIt(t) == IF t.kind = "timeout" THEN "timeoutException" ELSE "cancellationException"

\* throwIfCanceled(): the exception thrown, "none" when it returns
throwIfCanceled(t) == IF isCanceled(t) THEN throwIt(t) ELSE "none"

\* isCanceled() as code the dispatch runs may evaluate it.  *is_cancelled is a
\* plain bool (async.hpp:17) that cancel() writes (:37) and isCanceled() reads
\* (:41) with no synchronisation: a read on another thread that no
\* happens-before edge orders after the write is a data race, and may yield
\* the written value or the one published when the dispatch began.  The clock
\* is read race-free.
racyIsCanceled(t) ==
    {(f \/ (t.kind = "timeout" /\ now - t.m_start > t.m_timeout)) :
        f \in {is_cancelled[t.flagp], published[t.flagp]}}

\* The flags after a (copy or move) constructor ran for a token with flag p:
\* the default member initializer's make_shared<bool>(false) stays alive only
\* when the constructor does not rebind is_cancelled to an existing flag.
FlagsAfterConstruct(p) ==
    IF p > Len(is_cancelled) THEN Append(is_cancelled, FALSE) ELSE is_cancelled

\* cancellationToken()   (the constructions below belong to the token laws)
NewToken ==
    /\ Len(tokens) < MaxTokens
    /\ LET p == Len(is_cancelled) + 1 IN
         /\ is_cancelled' = Append(is_cancelled, FALSE)
         /\ tokens' = Append(tokens, Token("plain", p, 0, 0, p))
    /\ UNCHANGED <<now, registryVars, taskVars, callerVars, otherVars>>

\* timeoutToken(int timeout)
NewTimeoutToken ==
    /\ Len(tokens) < MaxTokens
    /\ \E timeout \in 0..MaxTimeout :
         LET p == Len(is_cancelled) + 1 IN
           /\ is_cancelled' = Append(is_cancelled, FALSE)
           /\ tokens' = Append(tokens, Token("timeout", p, now, timeout, p))
    /\ UNCHANGED <<now, registryVars, taskVars, callerVars, otherVars>>

\* cancellationToken b(a) / cancellationToken b(std::move(a)): the base class's
\* constructors.  Applied to a timeoutToken they slice: the new object is a
\* plain cancellationToken (this is what futures::m_token(a_token) does).
CopyConstruct(s) ==
    /\ Len(tokens) < MaxTokens
    /\ LET p == CopyFlag(tokens[s]) IN
         /\ is_cancelled' = FlagsAfterConstruct(p)
         /\ tokens' = Append(tokens, Token("plain", p, 0, 0, tokens[s].origin))
    /\ UNCHANGED <<now, registryVars, taskVars, callerVars, otherVars>>

\* timeoutToken b(a): the implicit copy/move constructor of timeoutToken, which
\* runs the base constructor and copies m_timeout and m_start.
CopyConstructTimeout(s) ==
    /\ Len(tokens) < MaxTokens
    /\ tokens[s].kind = "timeout"
    /\ LET p == CopyFlag(tokens[s]) IN
         /\ is_cancelled' = FlagsAfterConstruct(p)
         /\ tokens' = Append(tokens, Token("timeout", p, tokens[s].m_start,
                                          tokens[s].m_timeout, tokens[s].origin))
    /\ UNCHANGED <<now, registryVars, taskVars, callerVars, otherVars>>

\* cancel(): *is_cancelled = true ; any thread holding the token or a copy
cancel(s) ==
    /\ is_cancelled' = [is_cancelled EXCEPT ![tokens[s].flagp] = TRUE]
    /\ UNCHANGED <<tokens, now, registryVars, taskVars, callerVars, otherVars>>

\* the steady clock advances
Tick ==
    /\ now < MaxTime
    /\ now' = now + 1
    /\ UNCHANGED <<is_cancelled, tokens, registryVars, taskVars, callerVars, otherVars>>

\* ------------------------------------------------------- taskResult
\* taskResult<TResult>: result and exception are shared_ptr.  A result is 0
\* for nullptr and h >= 1 for a pointer to the response handler h made; an
\* exception is "none" for nullptr, else the dynamic type of the object.
taskResult(result, exception) == [result |-> result, exception |-> exception]

\* taskResult(): result(nullptr), exception(nullptr)
taskResultDefault == taskResult(0, "none")

hasResult(r) == r.result # 0

hasException(r) == r.exception # "none"

\* dynamic_cast<cancellationException*>: timeoutException derives from it
taskIsCanceled(r) ==
    hasException(r) /\ r.exception \in {"cancellationException", "timeoutException"}

\* dynamic_cast<timeoutException*>
taskIsTimeout(r) == hasException(r) /\ r.exception = "timeoutException"

\* The shared state of one std::future<taskResult>: "pending" until the task's
\* lambda ends, then "ready" with the taskResult it returned or "threw" with
\* the exception that left the lambda.
Future(status, value) == [status |-> status, value |-> value]

\* ftr.wait_for(0ms) == std::future_status::ready
futureReady(f) == f.status # "pending"

\* -------------------------------------------------- the chain's links
\* A link of a chain: a middleware object, a request_middleware_head or the
\* null shared_ptr.  A middleware object is named by who resolved it (0 when
\* the container hands out one instance to everybody, else the task) and its
\* index in resolveAll's vector; a head or a handler by the handler's index.
Link(t, o, j) == [t |-> t, o |-> o, j |-> j]

NullLink == Link("null", 0, 0)

\* middleware[j] as task i's resolveAll<request_middleware<TRequest>>() returns it
Resolved(i, j) == Link("mw", IF singleInstance THEN 0 ELSE i, j)

MiddlewareObjects ==
    {Link("mw", o, j) : o \in 0..MaxHandlers, j \in 0..(MaxMiddleware - 1)}

Tasks == 1..handlers

\* what a handler's handle() may do: return a response, return nullptr (a
\* void response), check the token first, throw a std::exception, or throw
\* something that is no std::exception
HandlerBehaviours == {"value", "nullptr", "check", "std::exception", "other"}

\* what a middleware's handle() may do before return next->handle(...)
MiddlewareBehaviours == {"forward", "check"}

\* the caller's token, the one passed as `cancellation`
cancellation == tokens[1]

async == caller \in {"launched", "get", "getReturned", "getRaised"}

\* the catch clauses of the task lambda (mediator.hpp:113-124): the exception
\* stored in taskResult.exception, "escapes" when no clause matches
Catch(e) ==
    CASE e = "timeoutException"      -> "timeoutException"
      [] e = "cancellationException" -> "cancellationException"
      [] e = "std::exception"        -> "std::exception"
      [] OTHER                       -> "escapes"

\* ------------------------------------------- one handler's invocation
\* The outcome of task i's invocation when its chain returns result v.
\* (ReturnUnlessCanceled is what the code does not do: consult the token
\* before it stores the result.)
\* sendAsync: taskResult.result = v, the lambda returns, the future is ready.
\* send: ret.push_back(v), and the loop goes on to the next handler or, after
\* the last one, send returns ret.
ReturnUnlessCanceled(i, v) ==
    IF async
    THEN /\ m_futures' = [m_futures EXCEPT ![i] =
                            Future("ready", IF isCanceled(cancellation)
                                            THEN taskResult(0, throwIt(cancellation))
                                            ELSE taskResult(v, "none"))]
         /\ pc' = [pc EXCEPT ![i] = "done"]
         /\ UNCHANGED <<ret, caller, thrown>>
    ELSE /\ ret' = Append(ret, IF isCanceled(cancellation) THEN 0 ELSE v)
         /\ pc' = [j \in DOMAIN pc |->
                     IF j = i THEN "done" ELSE IF j = i + 1 THEN "resolve" ELSE pc[j]]
         /\ caller' = IF i = handlers THEN "sendReturned" ELSE caller
         /\ UNCHANGED <<m_futures, thrown>>

Return(i, v) ==
    IF async
    THEN /\ m_futures' = [m_futures EXCEPT ![i] = Future("ready", taskResult(v, "none"))]
         /\ pc' = [pc EXCEPT ![i] = "done"]
         /\ UNCHANGED <<ret, caller, thrown>>
    ELSE /\ ret' = Append(ret, v)
         /\ pc' = [j \in DOMAIN pc |->
                     IF j = i THEN "done" ELSE IF j = i + 1 THEN "resolve" ELSE pc[j]]
         /\ caller' = IF i = handlers THEN "sendReturned" ELSE caller
         /\ UNCHANGED <<m_futures, thrown>>

\* The outcome of task i's invocation when its chain throws e.
\* sendAsync: the lambda's catch clauses store it in taskResult.exception; what
\* no clause catches leaves the lambda and std::async stores it in the future.
\* send: nothing catches it, it leaves send.
Throw(i, e) ==
    IF async
    THEN /\ m_futures' = [m_futures EXCEPT ![i] =
                            IF Catch(e) = "escapes"
                            THEN Future("threw", taskResultDefault)
                            ELSE Future("ready", taskResult(0, Catch(e)))]
         /\ pc' = [pc EXCEPT ![i] = "done"]
         /\ UNCHANGED <<ret, caller, thrown>>
    ELSE /\ thrown' = e
         /\ caller' = "sendRaised"
         /\ pc' = [pc EXCEPT ![i] = "done"]
         /\ UNCHANGED <<m_futures, ret>>

\* mediator::handle up to the loop: resolveAll<request_middleware<TRequest>>();
\* no middleware: handler->handle(request, cancellation) directly; otherwise
\* prev_middleware = new request_middleware_head(handler), i = size() - 1.
\* (container is m_container, which send/sendAsync already dereferenced.)
Resolve(i) ==
    /\ pc[i] = "resolve"
    /\ IF middleware = 0
       THEN /\ pc' = [pc EXCEPT ![i] = "call"]
            /\ at' = [at EXCEPT ![i] = Link("handler", i, 0)]
            /\ UNCHANGED <<i_loop, prev_middleware>>
       ELSE /\ pc' = [pc EXCEPT ![i] = "link"]
            /\ prev_middleware' = [prev_middleware EXCEPT ![i] = Link("head", i, 0)]
            /\ i_loop' = [i_loop EXCEPT ![i] = middleware - 1]
            /\ UNCHANGED at
    /\ UNCHANGED <<next, trace, checked, published, tokenVars, registryVars,
                   callerVars, otherVars>>

\* one iteration of the loop: curr_middleware = middleware[i];
\* curr_middleware->next = prev_middleware; prev_middleware = curr_middleware; i--
\* and, when the loop ends, the call middleware[0]->handle(request, cancellation)
LinkNext(i) ==
    /\ pc[i] = "link"
    /\ LET curr_middleware == Resolved(i, i_loop[i]) IN
         /\ next' = [next EXCEPT ![curr_middleware] = prev_middleware[i]]
         /\ prev_middleware' = [prev_middleware EXCEPT ![i] = curr_middleware]
    /\ i_loop' = [i_loop EXCEPT ![i] = i_loop[i] - 1]
    /\ IF i_loop[i] - 1 >= 0
       THEN UNCHANGED <<pc, at>>
       ELSE /\ pc' = [pc EXCEPT ![i] = "call"]
            /\ at' = [at EXCEPT ![i] = Resolved(i, 0)]
    /\ UNCHANGED <<trace, checked, published, tokenVars, registryVars,
                   callerVars, otherVars>>

\* a middleware's handle(): optionally cancellation.throwIfCanceled(), then
\* return next->handle(request, cancellation), next read when the call is made
\* (hello_world.cc:95-99)
MiddlewareHandle(i, b) ==
    /\ pc[i] = "call"
    /\ at[i].t = "mw"
    /\ trace' = [trace EXCEPT ![i] = Append(trace[i], at[i])]
    /\ checked' = [checked EXCEPT ![i] = checked[i] \/ b = "check"]
    /\ \E c \in racyIsCanceled(cancellation) :
         IF b = "check" /\ c
         THEN /\ Throw(i, throwIt(cancellation))
              /\ UNCHANGED at
         ELSE /\ at' = [at EXCEPT ![i] = next[at[i]]]
              /\ UNCHANGED <<pc, m_futures, ret, caller, thrown>>
    /\ UNCHANGED <<next, i_loop, prev_middleware, published, m_token, waitRet,
                   readyRet, tokenVars, registryVars, otherVars>>

\* the handler's handle(), reached directly or through
\* request_middleware_head::handle (head_handler->handle)
HandlerHandle(i, b) ==
    /\ pc[i] = "call"
    /\ at[i].t \in {"head", "handler"}
    /\ LET h == at[i].o IN
         /\ trace' = [trace EXCEPT ![i] = Append(trace[i], Link("handler", h, 0))]
         /\ checked' = [checked EXCEPT ![i] = checked[i] \/ b = "check"]
         /\ CASE b = "value"   -> Return(i, h)
              [] b = "nullptr" -> Return(i, 0)
              [] b = "check"   -> \E c \in racyIsCanceled(cancellation) :
                                     IF c THEN Throw(i, throwIt(cancellation))
                                          ELSE Return(i, h)
              [] OTHER         -> Throw(i, b)
    /\ UNCHANGED <<next, i_loop, prev_middleware, at, published, m_token, waitRet,
                   readyRet, tokenVars, registryVars, otherVars>>

\* ------------------------------------------------------ the caller
\* mediator::send: handlers = resolveAll<request_handler<TRequest>>(), then the
\* loop over them on the calling thread; with no handler it returns the empty ret
\* (sendLaunchAll is what send is not: every chain started at once)
sendLaunchAll ==
    /\ caller = "idle"
    /\ caller' = IF handlers = 0 THEN "sendReturned" ELSE "send"
    /\ pc' = [j \in DOMAIN pc |-> "resolve"]
    /\ ret' = <<>>
    /\ published' = is_cancelled
    /\ UNCHANGED <<next, i_loop, prev_middleware, at, trace, checked, m_futures, m_token,
                   thrown, waitRet, readyRet, tokenVars, registryVars, otherVars>>

send ==
    /\ caller = "idle"
    /\ caller' = IF handlers = 0 THEN "sendReturned" ELSE "send"
    /\ pc' = [j \in DOMAIN pc |-> IF j = 1 THEN "resolve" ELSE pc[j]]
    /\ ret' = <<>>
    /\ published' = is_cancelled
    /\ UNCHANGED <<next, i_loop, prev_middleware, at, trace, checked, m_futures, m_token,
                   thrown, waitRet, readyRet, tokenVars, registryVars, otherVars>>

\* mediator::sendAsync: one std::async(std::launch::async, ...) per resolved
\* handler, pushed in resolution order, then futures(ret, cancellation), whose
\* m_token is copy-constructed from the cancellationToken& (a slice)
sendAsync ==
    /\ caller = "idle"
    /\ caller' = "launched"
    /\ pc' = [j \in DOMAIN pc |-> "resolve"]
    /\ m_futures' = [j \in 1..handlers |-> Future("pending", taskResultDefault)]
    /\ LET p == CopyFlag(cancellation) IN
         /\ is_cancelled' = FlagsAfterConstruct(p)
         /\ m_token' = Token("plain", p, 0, 0, cancellation.origin)
    /\ published' = is_cancelled
    /\ UNCHANGED <<next, i_loop, prev_middleware, at, trace, checked, ret, thrown, waitRet,
                   readyRet, tokens, now, registryVars, otherVars>>

\* futures::wait(): false when m_token.isCanceled(); otherwise the for loop
\* looks at every future, its `continue` continues that for loop, and after
\* the loop wait returns true
waitResult == IF isCanceled(m_token) THEN "false" ELSE "true"

wait ==
    /\ caller = "launched"
    /\ waitRet = "none" /\ readyRet = "none"
    /\ waitRet' = waitResult
    /\ UNCHANGED <<m_futures, m_token, ret, caller, thrown, readyRet,
                   taskVars, tokenVars, registryVars, otherVars>>

\* futures::isReady(): true at the first future that is ready
\* (isReadyWhenAll is what it is not: true only when every future is ready)
isReadyWhenAll ==
    IF \A j \in 1..Len(m_futures) : futureReady(m_futures[j]) THEN "true" ELSE "false"

isReadyResult ==
    IF \E j \in 1..Len(m_futures) : futureReady(m_futures[j]) THEN "true" ELSE "false"

isReady ==
    /\ caller = "launched"
    /\ waitRet = "none" /\ readyRet = "none"
    /\ readyRet' = isReadyResult
    /\ UNCHANGED <<m_futures, m_token, ret, caller, thrown, waitRet,
                   taskVars, tokenVars, registryVars, otherVars>>

\* futures::get(): ret.push_back(ftr.get()) for every future in m_futures'
\* order; ftr.get() blocks until the future is ready and rethrows an exception
\* the task stored.  One step per ftr.get(); the last one returns ret.
get ==
    /\ caller \in {"launched", "get"}
    /\ IF Len(ret) = Len(m_futures)
       THEN /\ caller' = "getReturned"
            /\ UNCHANGED <<ret, thrown>>
       ELSE LET ftr == m_futures[Len(ret) + 1] IN
            /\ futureReady(ftr)
            /\ IF ftr.status = "threw"
               THEN /\ caller' = "getRaised"
                    /\ thrown' = "other"
                    /\ UNCHANGED ret
               ELSE /\ ret' = Append(ret, ftr.value)
                    /\ caller' = IF Len(ret) + 1 = Len(m_futures)
                                 THEN "getReturned" ELSE "get"
                    /\ UNCHANGED thrown
    /\ UNCHANGED <<m_futures, m_token, waitRet, readyRet,
                   taskVars, tokenVars, registryVars, otherVars>>

\* ------------------------------------------------------ taskResults
\* taskResults<TResult> is a std::vector<taskResult<TResult>>: a sequence.
\* The entries taskResult's three constructors make (async.hpp:83-87).
ExceptionTypes == {"cancellationException", "timeoutException", "std::exception"}

ResultEntries ==
    {taskResultDefault}
        \cup {taskResult(v, "none") : v \in 1..MaxHandlers}
        \cup {taskResult(0, e) : e \in ExceptionTypes}

\* What one call on a taskResults object gave back: ok is the bool returned
\* (TRUE for a void function that returned), result the TResult or the
\* shared_ptr<TResult> handed out (0: none), exception the exception that
\* left the call ("none": none).
Scan(op, ok, result, exception) ==
    [op |-> op, ok |-> ok, result |-> result, exception |-> exception]

NoScan == Scan("none", FALSE, 0, "none")

\* for (auto& r : *this) if (r.getResult(res)) return true;  return false;
\* taskResult::getResult(res): if (hasResult()) { res = result; return true; }
RECURSIVE getFirstResultFrom(_, _, _)
getFirstResultFrom(rs, k, op) ==
    IF k > Len(rs) THEN Scan(op, FALSE, 0, "none")
    ELSE IF hasResult(rs[k]) THEN Scan(op, TRUE, rs[k].result, "none")
    ELSE getFirstResultFrom(rs, k + 1, op)

\* for (auto& r : *this) if (r.getException(ex)) return true;  return false;
RECURSIVE getFirstExceptionFrom(_, _, _)
getFirstExceptionFrom(rs, k, op) ==
    IF k > Len(rs) THEN Scan(op, FALSE, 0, "none")
    ELSE IF hasException(rs[k]) THEN Scan(op, TRUE, 0, rs[k].exception)
    ELSE getFirstExceptionFrom(rs, k + 1, op)

\* for (auto& res : *this) if (res.hasException()) std::rethrow_exception(res.exception);
RECURSIVE throwFirstExceptionFrom(_, _, _)
throwFirstExceptionFrom(rs, k, op) ==
    IF k > Len(rs) THEN Scan(op, TRUE, 0, "none")
    ELSE IF hasException(rs[k]) THEN Scan(op, FALSE, 0, rs[k].exception)
    ELSE throwFirstExceptionFrom(rs, k + 1, op)

\* the range-for loops begin at begin(): the scan from the back is what they
\* are not
scanBeginLast(rs) == IF Len(rs) = 0 THEN 1 ELSE Len(rs)

scanBegin(rs) == 1

\* taskResults::getFirstResult(std::shared_ptr<TResult>& res)
getFirstResult ==
    /\ scanned' = getFirstResultFrom(results, scanBegin(results), "getFirstResult")
    /\ UNCHANGED <<results, simpleVars, tokenVars, registryVars, taskVars, callerVars>>

\* taskResults::getFirstException(std::shared_ptr<std::exception>& ex)
getFirstException ==
    /\ scanned' = getFirstExceptionFrom(results, scanBegin(results), "getFirstException")
    /\ UNCHANGED <<results, simpleVars, tokenVars, registryVars, taskVars, callerVars>>

\* taskResults::throwFirstException()
throwFirstException ==
    /\ scanned' = throwFirstExceptionFrom(results, scanBegin(results), "throwFirstException")
    /\ UNCHANGED <<results, simpleVars, tokenVars, registryVars, taskVars, callerVars>>

\* taskResults::getResult(): the first entry with a result gives *result (an
\* entry a constructor made has no exception beside its result); with none,
\* throwFirstException(), and when that returns control flows off the end of
\* a function returning TResult: any value may come back.
getResult ==
    /\ LET first == getFirstResultFrom(results, scanBegin(results), "getResult")
           threw == throwFirstExceptionFrom(results, scanBegin(results), "getResult")
       IN IF first.ok THEN scanned' = first
          ELSE IF threw.exception # "none" THEN scanned' = threw
          ELSE \E v \in 0..MaxHandlers : scanned' = Scan("getResult", TRUE, v, "none")
    /\ UNCHANGED <<results, simpleVars, tokenVars, registryVars, taskVars, callerVars>>

\* ------------------------------- the single-handler mediator (src/mediator.hpp)
\* A handler type is named by the hash_code() of its typeid, the key of
\* handlers_by_type; a handler object by its place in the sequence of
\* register_handler calls.  handlers_by_type[t] = 0: no entry for key t.
HandlerTypes == 1..MaxTypes

EmptyTable == [t \in HandlerTypes |-> 0]

\* req_handler::handle returns 7; send's last statement is return 1
HandleValue == 7

NotFoundValue == 1

\* What send gave back: kind "value" with the response value and the handler
\* object whose handle() made it (0: no handler ran), or kind "NoHandlerFound"
\* for a send that fails with that error.
Response(kind, handler, value) == [kind |-> kind, handler |-> handler, value |-> value]

NoResponse == Response("none", 0, 0)

\* std::unordered_map::insert_or_assign, which register_handler does not use
insert_or_assign(table, key, value) == [table EXCEPT ![key] = value]

\* std::unordered_map::emplace: no insertion when the key is already present
emplace(table, key, value) ==
    IF table[key] # 0 THEN table ELSE [table EXCEPT ![key] = value]

\* handlers_by_type.size()
size(table) == Cardinality({t \in HandlerTypes : table[t] # 0})

\* register_handler(THandler* handler): emplace(typeid(*handler).hash_code(), handler)
register_handler(t) ==
    /\ Len(registered) < MaxRegistered
    /\ registered' = Append(registered, t)
    /\ handlers_by_type' = emplace(handlers_by_type, t, Len(registered) + 1)
    /\ UNCHANGED <<response, scanVars, tokenVars, registryVars, taskVars, callerVars>>

\* send(const TRequest& r), TRequest::handler_type = t: the loop runs size()
\* times and its body does not depend on i; handlers_by_type[hash] is only
\* evaluated for a key find() found, so it inserts nothing.
holden_send(t) ==
    /\ LET hash == t IN
         response' = IF size(handlers_by_type) > 0 /\ handlers_by_type[hash] # 0
                     THEN Response("value", handlers_by_type[hash], HandleValue)
                     ELSE Response("value", 0, NotFoundValue)
    /\ UNCHANGED <<handlers_by_type, registered, scanVars, tokenVars, registryVars,
                   taskVars, callerVars>>

\* ------------------------------------------------ the specifications
NoToken == Token("none", 0, 0, 0, 0)

\* nothing dispatched yet
Undispatched ==
    /\ next = [m \in MiddlewareObjects |-> NullLink]
    /\ pc = [i \in Tasks |-> "idle"]
    /\ i_loop = [i \in Tasks |-> 0]
    /\ prev_middleware = [i \in Tasks |-> NullLink]
    /\ at = [i \in Tasks |-> NullLink]
    /\ trace = [i \in Tasks |-> <<>>]
    /\ checked = [i \in Tasks |-> FALSE]
    /\ published = <<>>
    /\ m_futures = <<>>
    /\ m_token = NoToken
    /\ ret = <<>>
    /\ caller = "idle"
    /\ thrown = "none"
    /\ waitRet = "none"
    /\ readyRet = "none"

\* no result set is being scanned
Unscanned ==
    /\ results = <<>>
    /\ scanned = NoScan

\* no single-handler mediator is in use
Unregistered ==
    /\ handlers_by_type = EmptyTable
    /\ registered = <<>>
    /\ response = NoResponse

\* The mediator is constructed over a container with 0..MaxHandlers handlers
\* and 0..MaxMiddleware middleware registered for the request type.  The
\* caller holds one token, plain or with a timeout, constructed just now, and
\* has handed a copy of it (tokens[2]) to whoever may cancel the dispatch.
Init ==
    /\ is_cancelled = <<FALSE>>
    /\ tokens \in {<<Token("plain", 1, 0, 0, 1), Token("plain", 1, 0, 0, 1)>>}
                    \cup {<<Token("timeout", 1, 0, timeout, 1),
                            Token("timeout", 1, 0, timeout, 1)>> : timeout \in 0..MaxTimeout}
    /\ now = 0
    /\ handlers \in 0..MaxHandlers
    /\ middleware \in 0..MaxMiddleware
    /\ singleInstance \in (IF middleware = 0 THEN {FALSE} ELSE BOOLEAN)
    /\ Undispatched
    /\ Unscanned
    /\ Unregistered

Next ==
    \/ send
    \/ sendAsync
    \/ wait
    \/ isReady
    \/ get
    \/ \E i \in Tasks : Resolve(i)
    \/ \E i \in Tasks : LinkNext(i)
    \/ \E i \in Tasks : \E b \in MiddlewareBehaviours : MiddlewareHandle(i, b)
    \/ \E i \in Tasks : \E b \in HandlerBehaviours : HandlerHandle(i, b)
    \/ \E s \in 1..Len(tokens) : cancel(s)
    \/ Tick

Spec == Init /\ [][Next]_vars

\* The token laws alone: tokens are constructed, copied, moved and cancelled
\* while the clock runs; nothing is dispatched.
InitToken ==
    /\ is_cancelled = <<>>
    /\ tokens = <<>>
    /\ now = 0
    /\ handlers = 0
    /\ middleware = 0
    /\ singleInstance = FALSE
    /\ Undispatched
    /\ Unscanned
    /\ Unregistered

NextToken ==
    \/ NewToken
    \/ NewTimeoutToken
    \/ \E s \in 1..Len(tokens) : CopyConstruct(s)
    \/ \E s \in 1..Len(tokens) : CopyConstructTimeout(s)
    \/ \E s \in 1..Len(tokens) : cancel(s)
    \/ Tick

SpecToken == InitToken /\ [][NextToken]_vars

\* nothing is dispatched and no token exists
NoDispatch ==
    /\ is_cancelled = <<>>
    /\ tokens = <<>>
    /\ now = 0
    /\ handlers = 0
    /\ middleware = 0
    /\ singleInstance = FALSE
    /\ Undispatched

RECURSIVE SeqsUpTo(_, _)
\* the sequences over S of length at most n
SeqsUpTo(S, n) ==
    IF n = 0 THEN {<<>>}
    ELSE LET shorter == SeqsUpTo(S, n - 1) IN
         shorter \cup {Append(q, x) : q \in shorter, x \in S}

\* The result-set scans alone: a taskResults object of up to MaxResults
\* entries, scanned again and again.
InitResults ==
    /\ NoDispatch
    /\ Unregistered
    /\ results \in SeqsUpTo(ResultEntries, MaxResults)
    /\ scanned = NoScan

NextResults ==
    \/ getFirstResult
    \/ getFirstException
    \/ throwFirstException
    \/ getResult

SpecResults == InitResults /\ [][NextResults]_vars

\* The single-handler mediator alone: mediator m{} , then register_handler
\* and send calls in any order.
InitSimple ==
    /\ NoDispatch
    /\ Unscanned
    /\ Unregistered

NextSimple ==
    \/ \E t \in HandlerTypes : register_handler(t)
    \/ \E t \in HandlerTypes : holden_send(t)

SpecSimple == InitSimple /\ [][NextSimple]_vars

\* The synchronous dispatch alone.
NextSend ==
    \/ send
    \/ \E i \in Tasks : Resolve(i)
    \/ \E i \in Tasks : LinkNext(i)
    \/ \E i \in Tasks : \E b \in MiddlewareBehaviours : MiddlewareHandle(i, b)
    \/ \E i \in Tasks : \E b \in HandlerBehaviours : HandlerHandle(i, b)
    \/ \E s \in 1..Len(tokens) : cancel(s)
    \/ Tick

SpecSend == Init /\ [][NextSend]_vars

\* ------------------------------------------------------------ claims
sendDone == caller \in {"sendReturned", "sendRaised"}

getDone == caller \in {"getReturned", "getRaised"}

\* the deadline of a timeoutToken has passed (timeoutToken::isCanceled's second operand)
deadlinePassed(t) == t.kind = "timeout" /\ now - t.m_start > t.m_timeout

\* C1: with N resolved handlers, whatever the handlers do, send returns a
\* result set of exactly N entries and so does sendAsync(...).get().
C1_ResultSetLength ==
    /\ sendDone => (caller = "sendReturned" /\ Len(ret) = handlers)
    /\ getDone  => (caller = "getReturned" /\ Len(ret) = handlers)

\* C2: in the result set get() returns, entry i is the outcome of task i, and
\* the only handler task i's chain invoked is the handler at index i of the
\* resolution order.
C2_ResultOrder ==
    caller = "getReturned" =>
        \A i \in 1..Len(ret) :
            /\ ret[i] = m_futures[i].value
            /\ \A k \in 1..Len(trace[i]) :
                   trace[i][k].t = "handler" => trace[i][k].o = i

\* C3: no failure of a handler or a middleware leaves the synchronous send.
C3_SendCatches == caller # "sendRaised" /\ (sendDone => thrown = "none")

\* C4: every failure of a handler's chain is stored as its task's outcome, so
\* no future holds an exception and get() never raises.
C4_GetNeverRaises ==
    /\ caller # "getRaised"
    /\ \A i \in 1..Len(m_futures) : m_futures[i].status # "threw"

\* C5: wait() returns true only when every launched task has completed.
C5_WaitTrueOnlyWhenAllDone ==
    [][wait => (waitRet' = "true" =>
                   \A i \in 1..Len(m_futures) : futureReady(m_futures[i]))]_vars

\* C6: wait() returns false whenever the token passed to sendAsync reports
\* isCanceled() at the time of the call.
C6_WaitFalseWhenCancelled ==
    [][(wait /\ isCanceled(cancellation)) => waitRet' = "false"]_vars

\* C7: all tokens copied (or moved) from one original report the same flag,
\* and cancel() on any of them makes isCanceled() true on all of them.
C7_SameFlag ==
    \A s, t \in 1..Len(tokens) :
        tokens[s].origin = tokens[t].origin
            => baseIsCanceled(tokens[s]) = baseIsCanceled(tokens[t])

C7_CancelReachesAll ==
    \A s \in 1..Len(tokens) :
        cancel(s) => \A t \in 1..Len(tokens) :
                        tokens[t].origin = tokens[s].origin => (isCanceled(tokens[t]))'

\* C7 (both parts): the flag is shared at all times, and every cancel() reaches
\* every token of the same origin.
C7_SharedFlag == []C7_SameFlag /\ [][C7_CancelReachesAll]_vars

\* a copy and its original, both cancelled by one cancel(), beside a token of
\* another origin that is not
C7_Witness ==
    \E s, t, u \in 1..Len(tokens) :
        /\ s # t
        /\ tokens[s].origin = tokens[t].origin
        /\ baseIsCanceled(tokens[s]) /\ baseIsCanceled(tokens[t])
        /\ tokens[u].origin # tokens[s].origin
        /\ ~baseIsCanceled(tokens[u])

\* C8: once isCanceled() is true on a token, it is true from then on, on that
\* token and on every copy of it, whatever cancel(), copy and clock steps follow.
C8_Monotonic ==
    [][\A s \in 1..Len(tokens) :
          isCanceled(tokens[s]) =>
              \A t \in 1..Len(tokens') :
                  (tokens[t].origin)' = tokens[s].origin => (isCanceled(tokens[t]))']_vars

\* C9: a task outcome that is a cancellation is classified TimedOut when the
\* token's deadline had passed at the check, and plain Cancelled (not TimedOut)
\* when the token was cancel()ed and its deadline, if any, had not passed.
C9_KindDistinguishable ==
    [][\A i \in 1..Len(m_futures) :
          (/\ m_futures[i].status = "pending"
           /\ m_futures'[i].status = "ready"
           /\ taskIsCanceled(m_futures'[i].value))
          => /\ deadlinePassed(cancellation) => taskIsTimeout(m_futures'[i].value)
             /\ (baseIsCanceled(cancellation) /\ ~deadlinePassed(cancellation))
                    => ~taskIsTimeout(m_futures'[i].value)]_vars

\* C10: every entry of the result set get() returns has exactly one of
\* hasResult / hasException.
C10_ExactlyOne ==
    caller = "getReturned" =>
        \A i \in 1..Len(ret) : hasResult(ret[i]) # hasException(ret[i])

\* the chain mediator::handle builds for task i: middleware[0] .. middleware[k-1]
\* as resolveAll returned them to task i, then handler i (mediator.hpp:58-74)
ExpectedChain(i) ==
    [k \in 1..(middleware + 1) |->
        IF k <= middleware THEN Resolved(i, k - 1) ELSE Link("handler", i, 0)]

IsPrefix(p, q) == Len(p) <= Len(q) /\ \A k \in 1..Len(p) : p[k] = q[k]

\* C11: with k >= 1 middleware, the invocations of a handler's chain are
\* M0, M1, .., Mk-1 and then the handler, each at most once and in that order
\* at every moment, and each exactly once when the chain has run with every
\* middleware forwarding; in send and in sendAsync.
C11_ChainOrder ==
    middleware >= 1 =>
        \A i \in Tasks :
            /\ IsPrefix(trace[i], ExpectedChain(i))
            /\ (pc[i] = "done" /\ ~checked[i]) => trace[i] = ExpectedChain(i)

\* the lowest index of an entry of rs that has a result, 0 when there is none
LowestResult(rs) ==
    IF \E k \in 1..Len(rs) : hasResult(rs[k])
    THEN CHOOSE k \in 1..Len(rs) :
             hasResult(rs[k]) /\ \A j \in 1..(k - 1) : ~hasResult(rs[j])
    ELSE 0

\* the lowest index of an entry of rs that has an exception, 0 when there is none
LowestException(rs) ==
    IF \E k \in 1..Len(rs) : hasException(rs[k])
    THEN CHOOSE k \in 1..Len(rs) :
             hasException(rs[k]) /\ \A j \in 1..(k - 1) : ~hasException(rs[j])
    ELSE 0

\* C12 (results of the scans): getFirstResult hands out the result of the
\* lowest-index entry that has one and returns false when no entry has one;
\* throwFirstException rethrows the exception of the lowest-index entry that
\* has one, whether or not another entry has a result, and returns when no
\* entry has one.
C12_FirstInOrder ==
    LET s == LowestResult(results)
        f == LowestException(results)
    IN /\ scanned.op = "getFirstResult" =>
              IF s = 0 THEN ~scanned.ok /\ scanned.result = 0
              ELSE scanned.ok /\ scanned.result = results[s].result
       /\ scanned.op = "throwFirstException" =>
              IF f = 0 THEN scanned.ok /\ scanned.exception = "none"
              ELSE ~scanned.ok /\ scanned.exception = results[f].exception

C13_NoHandlerFound ==
    (response # NoResponse /\ response.handler = 0) => response.kind = "NoHandlerFound"

\* the first register_handler call made for handler type t, 0 when there is none
FirstRegistered(t) ==
    IF \E k \in 1..Len(registered) : registered[k] = t
    THEN CHOOSE k \in 1..Len(registered) :
             registered[k] = t /\ \A j \in 1..(k - 1) : registered[j] # t
    ELSE 0

\* C19 (the table): for every handler type the table holds exactly the first
\* handler registered for it, and nothing for a type never registered.
C19_FirstRegistrationKept ==
    \A t \in HandlerTypes : handlers_by_type[t] = FirstRegistered(t)

\* C19 (send): a send for a type that has a stored handler returns the
\* response that handler's handle() made, and no send changes the table.
C19_SendUsesStored ==
    \A t \in HandlerTypes :
        holden_send(t) =>
            /\ handlers_by_type[t] # 0 =>
                   response' = Response("value", FirstRegistered(t), HandleValue)
            /\ handlers_by_type' = handlers_by_type

\* C19: both parts, after any sequence of register_handler and send calls.
C19_SingleHandlerTable == []C19_FirstRegistrationKept /\ [][C19_SendUsesStored]_vars

\* two handlers registered for one type, another type registered in between,
\* and a send answered by the first of the two
C19_Witness ==
    \E j, k \in 1..Len(registered) :
        /\ j < k
        /\ registered[j] = registered[k]
        /\ \E m \in 1..Len(registered) : registered[m] # registered[j]
        /\ handlers_by_type[registered[j]] = j
        /\ response = Response("value", j, HandleValue)

\* task i's handler or middleware runs cancellation.throwIfCanceled() in this step
Checks(i) == MiddlewareHandle(i, "check") \/ HandlerHandle(i, "check")

\* C14: in sendAsync every task observes the caller's token: once the flag is
\* set through the token or a copy, before the dispatch or during it, every
\* throwIfCanceled() a task's handler or middleware runs throws, and the task
\* ends with an outcome classified as cancelled.
C14_CancelObserved ==
    [][\A i \in Tasks :
          (Checks(i) /\ async /\ baseIsCanceled(cancellation))
              => /\ m_futures'[i].status = "ready"
                 /\ taskIsCanceled(m_futures'[i].value)]_vars

RECURSIVE ChainEnd(_, _)
\* the handler the chain entered at link l ends at as the next links stand
\* now, following at most n of them; 0 when it ends at no handler
ChainEnd(l, n) ==
    IF l.t \in {"head", "handler"} THEN l.o
    ELSE IF l.t = "null" \/ n = 0 THEN 0
    ELSE ChainEnd(next[l], n - 1)

\* how many times the chains of the dispatch have invoked handler h
Invocations(h) ==
    Cardinality({<<i, k>> \in Tasks \X (1..(MaxMiddleware + 1)) :
                    k <= Len(trace[i]) /\ trace[i][k] = Link("handler", h, 0)})

\* C15: whatever the registry returns and however the tasks interleave, the
\* chain a task is executing leads to the handler the task was launched for,
\* the only handler a task's chain invokes is that one, and when every chain
\* has run to its end each resolved handler was invoked exactly once.
C15_ChainsImmutable ==
    /\ \A i \in Tasks : pc[i] = "call" => ChainEnd(at[i], middleware) = i
    /\ \A i \in Tasks : \A k \in 1..Len(trace[i]) :
           trace[i][k].t = "handler" => trace[i][k].o = i
    /\ (\A i \in Tasks : pc[i] = "done" /\ ~checked[i])
           => \A h \in Tasks : Invocations(h) = 1

\* C16 (no cancellation by the engine): a chain that ran to its end without
\* ever calling throwIfCanceled() has no cancelled or timed-out outcome: in
\* sendAsync its task result is not classified cancelled, and in send it is not
\* the chain that made send raise a cancellation.
C16_NoEngineCancel ==
    \A i \in Tasks :
        (pc[i] = "done" /\ ~checked[i]) =>
            IF async
            THEN ~(m_futures[i].status = "ready" /\ taskIsCanceled(m_futures[i].value))
            ELSE (caller = "sendRaised" /\ Len(ret) = i - 1)
                     => thrown \notin {"cancellationException", "timeoutException"}

\* C16 (the steps): a middleware that does not check forwards, and the value
\* a handler returns becomes the outcome, whatever the token says at that time.
C16_ValueKept ==
    \A i \in Tasks :
        /\ MiddlewareHandle(i, "forward") => (pc'[i] = "call" /\ at'[i] = next[at[i]])
        /\ HandlerHandle(i, "value") =>
               /\ pc'[i] = "done"
               /\ IF async
                  THEN m_futures'[i] = Future("ready", taskResult(at[i].o, "none"))
                  ELSE ret' = Append(ret, at[i].o)

\* C16: cancellation is cooperative only.
C16_CooperativeOnly == []C16_NoEngineCancel /\ [][C16_ValueKept]_vars

\* a task of a dispatch that began with the token already cancelled and, for a
\* timeoutToken, ended past its deadline: its chain, middleware included, never
\* checked, and its outcome is the handler's response
C16_Witness ==
    \E i \in Tasks :
        /\ async
        /\ middleware >= 1
        /\ published[cancellation.flagp]
        /\ cancellation.kind = "timeout" /\ deadlinePassed(cancellation)
        /\ pc[i] = "done" /\ ~checked[i]
        /\ m_futures[i] = Future("ready", taskResult(i, "none"))

\* the chain of handler i has started and has not returned
InProgress(i) == pc[i] \in {"resolve", "link", "call"}

\* C17: in send the chain of handler j has not started before the chains of
\* all handlers resolved before it have returned, at most one chain is in
\* progress at any time, and the responses are collected in resolution order
\* (entry i of ret comes from handler i).
C17_Sequential ==
    ~async =>
        /\ \A i, j \in Tasks : (i < j /\ pc[j] # "idle") => pc[i] = "done"
        /\ Cardinality({i \in Tasks : InProgress(i)}) <= 1
        /\ \A i \in 1..Len(ret) :
               /\ ret[i] \in {0, i}
               /\ pc[i] = "done"
               /\ trace[i][Len(trace[i])] = Link("handler", i, 0)

\* send in the middle of its loop: handler 1's chain has returned, handler 2's
\* chain, with middleware, is in progress
C17_Witness ==
    /\ caller = "send"
    /\ middleware >= 1
    /\ Len(ret) = 1
    /\ pc[1] = "done"
    /\ InProgress(2)
    /\ Len(trace[2]) >= 1

\* C18: get() does not return before every launched task has completed, and
\* when every chain has terminated get() ends by returning: it has consumed
\* every future up to the first one still running and it does not end raising.
C18_GetReturnsAfterAll ==
    /\ caller = "getReturned" => \A i \in Tasks : pc[i] = "done"
    /\ caller \in {"get", "getReturned"} =>
           \A i \in 1..Len(ret) : pc[i] = "done" /\ futureReady(m_futures[i])
    /\ (\A i \in Tasks : pc[i] = "done") => caller # "getRaised"

\* C20: isReady() returns true exactly when at least one launched task has
\* completed, false when none has (also when none was launched), and it leaves
\* every future and its stored outcome as they were.
C20_IsReadyAny ==
    [][isReady =>
          /\ readyRet' = "true" <=> \E i \in Tasks : pc[i] = "done"
          /\ readyRet' \in {"true", "false"}
          /\ m_futures' = m_futures
          /\ ret' = ret]_vars

\* isReady() answered true while one task was still running and another had
\* completed, and the completed task's outcome is still in its future
C20_Witness ==
    /\ caller = "launched"
    /\ readyRet = "true"
    /\ \E i, j \in Tasks :
           /\ pc[i] # "done" /\ m_futures[i].status = "pending"
           /\ pc[j] = "done" /\ m_futures[j].status = "ready"
    /\ Len(ret) = 0

====
